---- MODULE Spec2Model ----
(***************************************************************************)
(* A model of the agents-service of lovable-clone:                         *)
(*   - GameDeveloperAgent (agents/game_developer_agent.py): one shared     *)
(*     chat history, generate_game / review_game, _parse_agent_response;  *)
(*   - ClaudeCodeBridge (plugins/claude_code_bridge.py): the subprocess    *)
(*     bridge with its temporary script at a fixed path.                   *)
(*   - ClaudeCodePlugin._extract_game_code_from_messages, the escaping of  *)
(*     the prompt, and the health probe of api_server.py.                  *)
(* Texts are sequences of tokens; a token stands for a non-empty run of    *)
(* characters that the code's substring searches treat as a unit.          *)
(***************************************************************************)
EXTENDS Integers, Sequences, FiniteSets, TLC

VARIABLES
    chat_history,   \* GameDeveloperAgent.chat_history: the sequence of turns
    pc,             \* per agent call: "idle", "awaiting" (suspended in the service call), "done"
    op,             \* per agent call: "none", "generate", "review"
    arg,            \* per agent call: the arguments of the call
    invoked,        \* per agent call: the backends that call has invoked, in order
    raised,         \* per agent call: the exception the service raised, if any
    result,         \* per agent call: the dictionary returned to the caller
    script,         \* the file at script_path: 0 when absent, else the invocation that wrote it
    bpc,            \* per bridge invocation: "idle", "communicate", "returned", "cancelled"
    proc,           \* per bridge invocation: its node subprocess
    bresult,        \* per bridge invocation: the dictionary returned to the caller
    node_ok,        \* whether node_executable can be executed on this host
    health,         \* the last answer of GET /health
    fn,             \* the helper function last applied on its own, "none" before
    fin,            \* the input of that function
    fout            \* the value it returned

agentVars  == <<chat_history, pc, op, arg, invoked, raised, result>>
bridgeVars == <<script, bpc, proc, bresult>>
hostVars   == <<node_ok>>
apiVars    == <<health>>
fnVars     == <<fn, fin, fout>>
restVars   == <<node_ok, health, fn, fin, fout>>
vars       == <<chat_history, pc, op, arg, invoked, raised, result,
                script, bpc, proc, bresult, node_ok, health, fn, fin, fout>>

(***************************************************************************)
(* Bounds of the model.                                                    *)
(***************************************************************************)
MaxCalls == 2
MaxInvocations == 2

Calls == 1..MaxCalls
Invocations == 1..MaxInvocations

(***************************************************************************)
(* Texts.                                                                  *)
(***************************************************************************)
Min(a, b) == IF a < b THEN a ELSE b

\* str.find(sub, start) over tokens: the least index >= start whose token is
\* in subs, or 0 when there is none (Python's -1).
Find(s, subs, start) ==
    LET hits == {i \in start..Len(s) : s[i] \in subs}
    IN  IF hits = {} THEN 0 ELSE CHOOSE i \in hits : \A j \in hits : i <= j

\* str.rfind(sub): the greatest index whose token is in subs, or 0.
RFind(s, subs) ==
    LET hits == {i \in 1..Len(s) : s[i] \in subs}
    IN  IF hits = {} THEN 0 ELSE CHOOSE i \in hits : \A j \in hits : i >= j

\* str.strip(): drop the leading and the trailing whitespace tokens.
Strip(s) ==
    LET keep == {i \in 1..Len(s) : s[i] # " "}
    IN  IF keep = {} THEN <<>>
        ELSE SubSeq(s, CHOOSE i \in keep : \A j \in keep : i <= j,
                       CHOOSE i \in keep : \A j \in keep : i >= j)

\* "FENCE" is the three-backtick marker and "FENCE_HTML" the marker followed
\* by html; the three-backtick marker occurs in both.
FenceTokens == {"FENCE", "FENCE_HTML"}

\* The tokens that are one "key": value pair of a JSON object.
\* The pairs whose value is a mapping from file names to file contents.
MappingTokens == {"k:codeGenerated=html", "k:codeGenerated=js_html",
                  "k:codeGenerated=js_empty", "k:codeGenerated=sentinel",
                  "k:codeGenerated=game", "k:files=game",
                  "k:codeGenerated=js_css", "k:codeGenerated=emptyjs_css"}

PairTokens == {"k:success=false", "k:success=true", "k:filename=f",
               "k:summary=s", "k:game_code=g", "k:error=e"} \cup MappingTokens

PairKey(t) ==
    CASE t \in {"k:success=false", "k:success=true"} -> "success"
      [] t = "k:filename=f"  -> "filename"
      [] t = "k:summary=s"   -> "summary"
      [] t = "k:game_code=g" -> "game_code"
      [] t = "k:error=e"     -> "error"
      [] t = "k:files=game"  -> "files"
      [] t \in MappingTokens \ {"k:files=game"} -> "codeGenerated"

\* A file of a codeGenerated mapping; a mapping is the sequence of its items
\* in the order the JSON text lists them.
File(name, content) == [file |-> name, content |-> content]

PairValue(t) ==
    CASE t = "k:success=false" -> FALSE
      [] t = "k:success=true"  -> TRUE
      [] t = "k:filename=f"    -> "f.html"
      [] t = "k:summary=s"     -> <<"s">>
      [] t = "k:game_code=g"   -> <<"g">>
      [] t = "k:error=e"       -> <<"e">>
      [] t = "k:codeGenerated=html" -> <<File("game.html", <<"H">>)>>
      [] t = "k:codeGenerated=js_html" ->
             <<File("main.js", <<"J">>), File("index.html", <<"H">>)>>
      [] t = "k:codeGenerated=js_empty" ->
             <<File("main.js", <<"J">>), File("index.html", <<>>)>>
      [] t = "k:codeGenerated=sentinel" ->
             <<File("game.html", <<"H", "RESULT_END", "H">>)>>
      [] t \in {"k:codeGenerated=game", "k:files=game"} ->
             <<File("game.html", <<"<html></html>">>)>>
      [] t = "k:codeGenerated=js_css" ->
             <<File("main.js", <<"J">>), File("style.css", <<"C">>)>>
      [] t = "k:codeGenerated=emptyjs_css" ->
             <<File("main.js", <<>>), File("style.css", <<"C">>)>>

\* json.loads accepts the span as an object: braces around pairs and whitespace.
IsJsonObject(s) ==
    /\ Len(s) >= 2
    /\ s[1] = "{"
    /\ s[Len(s)] = "}"
    /\ \A i \in 2..(Len(s) - 1) : s[i] \in PairTokens \cup {" "}

\* The dictionary json.loads builds: a later pair of the same key wins.
JsonDict(s) ==
    LET idx  == {i \in 2..(Len(s) - 1) : s[i] \in PairTokens}
        keys == {PairKey(s[i]) : i \in idx}
        last(k) == CHOOSE i \in idx :
                      /\ PairKey(s[i]) = k
                      /\ \A j \in idx : PairKey(s[j]) = k => j <= i
    IN  [k \in keys |-> PairValue(s[last(k)])]

\* dict.get(key, default)
Get(d, k, default) == IF k \in DOMAIN d THEN d[k] ELSE default

\* dict.update(other)
Update(d, other) ==
    [k \in DOMAIN d \cup DOMAIN other |-> IF k \in DOMAIN other THEN other[k] ELSE d[k]]

(***************************************************************************)
(* GameDeveloperAgent                                                      *)
(***************************************************************************)
\* The generation backends registered with the kernel, in the order
\* initialize_services registers them: the chat-completion service and the
\* ClaudeCode bridge plugin.
Backends == <<"game_developer", "ClaudeCode">>

\* GameDeveloperAgent.service_id
service_id == "game_developer"

\* review_game quotes game_code[:500] in its prompt.
ReviewCodeLimit == 500

\* A game code of one character more than review_game quotes.
LongCode == [k \in 1..(ReviewCodeLimit + 1) |-> "c"]

\* The inputs of the model.
Prompts == {"p1"}
GameCodes == {LongCode}
Feedbacks == {"fb"}
ErrorKinds == {"Unavailable", "Timeout", "NonZeroExit", "MalformedOutput", "UpstreamRejected"}
ErrorMessages == {"m1", "m2"}
Exceptions == [kind : ErrorKinds, msg : ErrorMessages]
NoException == [kind |-> "none", msg |-> "none"]

RespProse == <<"T">>
RespFence == <<"T", "FENCE_HTML", " ", "H", " ", "FENCE", "T">>
RespFenceFail == <<"FENCE_HTML", "H", "FENCE", "{", "k:success=false", "}">>
RespJsonFail == <<"T", "{", "k:success=false", "}">>
Responses == {RespProse, RespFence, RespFenceFail, RespJsonFail}

NoArg == [prompt |-> "none"]
NoResult == [pending |-> TRUE]

\* A ChatMessageContent; call is bookkeeping: the call that added the turn
\* (0 for the constructor).
Turn(role, content, c) == [role |-> role, content |-> content, call |-> c]

SystemTurn == Turn("system", <<"SYSTEM_MESSAGE">>, 0)

\* The f-strings pm_prompt and review_prompt.
PmPrompt(prompt) == <<"pm_prompt", prompt>>
ReviewPrompt(game_code, feedback) ==
    <<"review_prompt", feedback, SubSeq(game_code, 1, Min(Len(game_code), ReviewCodeLimit))>>

\* ChatHistory.add_message
AddMessage_Prepend(history, turn) == <<history[1], turn>> \o Tail(history)
AddMessage(history, turn) == Append(history, turn)

\* _parse_agent_response: the fenced block, then the trailing JSON object.
ParseFence_LastBlock(content) ==
    LET at    == RFind(content, {"FENCE_HTML"})
        start == at + 1
        end   == Find(content, FenceTokens, start)
    IN  IF at # 0 /\ end > start
        THEN [game_code |-> Strip(SubSeq(content, start, end - 1)),
              filename  |-> "game.html"]
        ELSE <<>>
ParseFence(content) ==
    LET at    == Find(content, {"FENCE_HTML"}, 1)
        start == at + 1
        end   == Find(content, FenceTokens, start)
    IN  IF at # 0 /\ end > start
        THEN [game_code |-> Strip(SubSeq(content, start, end - 1)),
              filename  |-> "game.html"]
        ELSE <<>>

ParseJson_Lenient(content) ==
    LET json_start == RFind(content, {"{"})
        json_end   == RFind(content, {"}"})
    IN  IF json_start # 0 /\ json_end # 0 /\ json_start <= json_end
        THEN JsonDict(SubSeq(content, json_start, json_end))
        ELSE <<>>

ParseJson(content) ==
    LET json_start == RFind(content, {"{"})
        json_end   == RFind(content, {"}"})
    IN  IF json_start # 0 /\ json_end # 0 /\ json_start <= json_end
           /\ IsJsonObject(SubSeq(content, json_start, json_end))
        THEN JsonDict(SubSeq(content, json_start, json_end))
        ELSE <<>>

parse_agent_response_FenceWins(content) ==
    Update(Update([success |-> TRUE, summary |-> content], ParseJson(content)),
           ParseFence(content))
parse_agent_response(content) ==
    Update(Update([success |-> TRUE, summary |-> content], ParseFence(content)),
           ParseJson(content))

\* The dictionaries generate_game and review_game return.
GenerateSuccess(content) ==
    LET parsed_result == parse_agent_response(content)
    IN  [success        |-> Get(parsed_result, "success", TRUE),
         game_code      |-> Get(parsed_result, "game_code", <<>>),
         filename       |-> Get(parsed_result, "filename", "game.html"),
         summary        |-> Get(parsed_result, "summary", content),
         chat_history   |-> "self.chat_history",
         agent_response |-> content]

GenerateFailure_NoMessage(error) ==
    [success |-> FALSE, error |-> "error", chat_history |-> "self.chat_history"]
GenerateFailure(error) ==
    [success |-> FALSE, error |-> error, chat_history |-> "self.chat_history"]

ReviewSuccess(content, game_code) ==
    LET parsed_result == parse_agent_response(content)
    IN  [success         |-> Get(parsed_result, "success", TRUE),
         improved_code   |-> Get(parsed_result, "improved_code", game_code),
         changes_summary |-> Get(parsed_result, "changes_summary", content),
         agent_response  |-> content]

ReviewFailure(error) == [success |-> FALSE, error |-> error]

\* kernel.get_service(self.service_id): the one service a call invokes.
InvokeService_Other(c) == [invoked EXCEPT ![c] = Append(@, Backends[2])]
InvokeService(c) == [invoked EXCEPT ![c] = Append(@, service_id)]

\* generate_game up to the await of get_chat_message_contents.
generate_game_call(c, prompt) ==
    /\ pc[c] = "idle"
    /\ chat_history' = AddMessage(chat_history, Turn("user", PmPrompt(prompt), c))
    /\ invoked' = InvokeService(c)
    /\ pc' = [pc EXCEPT ![c] = "awaiting"]
    /\ op' = [op EXCEPT ![c] = "generate"]
    /\ arg' = [arg EXCEPT ![c] = [prompt |-> prompt]]
    /\ UNCHANGED <<raised, result, bridgeVars, restVars>>

\* The service answered with a non-empty list: result[0] is added and parsed.
generate_game_response(c, content) ==
    /\ pc[c] = "awaiting" /\ op[c] = "generate"
    /\ chat_history' = AddMessage(chat_history, Turn("assistant", content, c))
    /\ result' = [result EXCEPT ![c] = GenerateSuccess(content)]
    /\ pc' = [pc EXCEPT ![c] = "done"]
    /\ UNCHANGED <<op, arg, invoked, raised, bridgeVars, restVars>>

\* The service answered with nothing (the else of "if result").
generate_game_no_response(c) ==
    /\ pc[c] = "awaiting" /\ op[c] = "generate"
    /\ result' = [result EXCEPT ![c] = GenerateFailure("No response from AI service")]
    /\ pc' = [pc EXCEPT ![c] = "done"]
    /\ UNCHANGED <<chat_history, op, arg, invoked, raised, bridgeVars, restVars>>

\* The service raised e: the except clause returns str(e).
generate_game_exception_Swallow(c, e) ==
    /\ pc[c] = "awaiting" /\ op[c] = "generate"
    /\ raised' = [raised EXCEPT ![c] = e]
    /\ chat_history' = AddMessage(chat_history, Turn("assistant", <<e.msg>>, c))
    /\ result' = [result EXCEPT ![c] = GenerateSuccess(<<e.msg>>)]
    /\ pc' = [pc EXCEPT ![c] = "done"]
    /\ UNCHANGED <<op, arg, invoked, bridgeVars, restVars>>
generate_game_exception(c, e) ==
    /\ pc[c] = "awaiting" /\ op[c] = "generate"
    /\ raised' = [raised EXCEPT ![c] = e]
    /\ result' = [result EXCEPT ![c] = GenerateFailure(e.msg)]
    /\ pc' = [pc EXCEPT ![c] = "done"]
    /\ UNCHANGED <<chat_history, op, arg, invoked, bridgeVars, restVars>>

\* review_game up to the await of get_chat_message_contents.
review_game_call(c, game_code, feedback) ==
    /\ pc[c] = "idle"
    /\ chat_history' = AddMessage(chat_history,
                                  Turn("user", ReviewPrompt(game_code, feedback), c))
    /\ invoked' = InvokeService(c)
    /\ pc' = [pc EXCEPT ![c] = "awaiting"]
    /\ op' = [op EXCEPT ![c] = "review"]
    /\ arg' = [arg EXCEPT ![c] = [game_code |-> game_code, feedback |-> feedback]]
    /\ UNCHANGED <<raised, result, bridgeVars, restVars>>

review_game_response(c, content) ==
    /\ pc[c] = "awaiting" /\ op[c] = "review"
    /\ chat_history' = AddMessage(chat_history, Turn("assistant", content, c))
    /\ result' = [result EXCEPT ![c] = ReviewSuccess(content, arg[c].game_code)]
    /\ pc' = [pc EXCEPT ![c] = "done"]
    /\ UNCHANGED <<op, arg, invoked, raised, bridgeVars, restVars>>

review_game_no_response(c) ==
    /\ pc[c] = "awaiting" /\ op[c] = "review"
    /\ result' = [result EXCEPT ![c] = ReviewFailure("No response from AI service")]
    /\ pc' = [pc EXCEPT ![c] = "done"]
    /\ UNCHANGED <<chat_history, op, arg, invoked, raised, bridgeVars, restVars>>

review_game_exception(c, e) ==
    /\ pc[c] = "awaiting" /\ op[c] = "review"
    /\ raised' = [raised EXCEPT ![c] = e]
    /\ result' = [result EXCEPT ![c] = ReviewFailure(e.msg)]
    /\ pc' = [pc EXCEPT ![c] = "done"]
    /\ UNCHANGED <<chat_history, op, arg, invoked, bridgeVars, restVars>>

AgentNext ==
    \/ \E c \in Calls, prompt \in Prompts : generate_game_call(c, prompt)
    \/ \E c \in Calls, content \in Responses : generate_game_response(c, content)
    \/ \E c \in Calls : generate_game_no_response(c)
    \/ \E c \in Calls, e \in Exceptions : generate_game_exception(c, e)
    \/ \E c \in Calls, game_code \in GameCodes, feedback \in Feedbacks :
          review_game_call(c, game_code, feedback)
    \/ \E c \in Calls, content \in Responses : review_game_response(c, content)
    \/ \E c \in Calls : review_game_no_response(c)
    \/ \E c \in Calls, e \in Exceptions : review_game_exception(c, e)

(***************************************************************************)
(* ClaudeCodeBridge                                                        *)
(***************************************************************************)
\* What a node subprocess writes to stdout and stderr.
OutSuccess == <<"RESULT_START", "{", "k:success=true", "k:codeGenerated=html", "}", "RESULT_END">>
OutError   == <<"ERROR_START", "{", "k:success=false", "k:error=e", "}", "ERROR_END">>
OutGarbage == <<"T">>
OutArray   == <<"[]">>
Stdouts == {OutSuccess, OutError, OutGarbage, OutArray}
Stderrs == {<<"stderr">>}
ModuleNotFound == <<"Cannot find module">>

\* json.loads on a whole text: an object, another JSON value, or JSONDecodeError.
JsonLoads(s) ==
    LET t == Strip(s)
    IN  IF IsJsonObject(t) THEN [kind |-> "dict", value |-> JsonDict(t)]
        ELSE IF t = <<"[]">> THEN [kind |-> "list", value |-> <<>>]
        ELSE [kind |-> "JSONDecodeError", value |-> <<>>]

\* The tokens in which a marker word occurs: the marker itself and the pair
\* whose file content holds the word.
Occurrences(marker) ==
    IF marker = "RESULT_END" THEN {"RESULT_END", "k:codeGenerated=sentinel"} ELSE {marker}

\* "marker in output"
Contains(output, marker) == \E i \in 1..Len(output) : output[i] \in Occurrences(marker)

\* output[start:end].strip() with start just after the first opening marker
\* and end at the first closing marker; a closing marker found inside a pair
\* cuts the pair off, and what is left of it is no JSON.
Between(output, opening, closing) ==
    Strip(SubSeq(output, Find(output, Occurrences(opening), 1) + 1,
                         Find(output, Occurrences(closing), 1) - 1))

\* The text _parse_node_output hands to json.loads.
JsonText(output) ==
    IF Contains(output, "RESULT_START") /\ Contains(output, "RESULT_END")
        THEN Between(output, "RESULT_START", "RESULT_END")
    ELSE IF Contains(output, "ERROR_START") /\ Contains(output, "ERROR_END")
        THEN Between(output, "ERROR_START", "ERROR_END")
    ELSE output

\* _parse_node_output
parse_node_output(output) ==
    IF JsonLoads(JsonText(output)).kind = "JSONDecodeError"
    THEN [kind |-> "dict",
          value |-> [success       |-> FALSE,
                     error         |-> <<"Failed to parse Node.js output: ">> \o output,
                     messages      |-> <<>>,
                     filesCreated  |-> <<>>,
                     codeGenerated |-> <<>>,
                     summary       |-> <<>>]]
    ELSE JsonLoads(JsonText(output))

\* file.endswith('.html')
IsHtml(file) == file \in {"game.html", "index.html"}

SelectArtifact_Last(code_generated) ==
    LET htmls == {i \in 1..Len(code_generated) : IsHtml(code_generated[i].file)}
        first == CHOOSE i \in htmls : \A j \in htmls : i <= j
        loop  == IF htmls = {}
                 THEN [game_code |-> <<>>, filename |-> "game.html"]
                 ELSE [game_code |-> code_generated[first].content,
                       filename  |-> code_generated[first].file]
    IN  IF Len(code_generated) > 0 /\ loop.game_code = <<>>
        THEN [game_code |-> code_generated[Len(code_generated)].content,
              filename  |-> code_generated[Len(code_generated)].file]
        ELSE loop

\* The choice of the primary artifact among codeGenerated.
SelectArtifact(code_generated) ==
    LET htmls == {i \in 1..Len(code_generated) : IsHtml(code_generated[i].file)}
        first == CHOOSE i \in htmls : \A j \in htmls : i <= j
        loop  == IF htmls = {}
                 THEN [game_code |-> <<>>, filename |-> "game.html"]
                 ELSE [game_code |-> code_generated[first].content,
                       filename  |-> code_generated[first].file]
    IN  IF Len(code_generated) > 0 /\ loop.game_code = <<>>
        THEN [game_code |-> code_generated[1].content,
              filename  |-> code_generated[1].file]
        ELSE loop

\* ClaudeCodeBridge.node_executable and the script_path of an invocation.
node_executable == "node"
script_path == "temp_claude_code_bridge.js"

\* str(e) of the FileNotFoundError raised for a path.
NoSuchFile(path) == <<"[Errno 2] No such file or directory: ", path>>

\* The error text of the outer except clause for an exception of text e.
ExecuteFailed(e) ==
    <<"Failed to execute Claude Code bridge: ">> \o e

\* The dictionaries generate_game_with_claude_code returns.
BridgeFailure(error) ==
    [success |-> FALSE, error |-> error, game_code |-> <<>>,
     files_created |-> <<>>, summary |-> <<>>]

BridgeSuccess_ReadsFiles(r) ==
    LET chosen == SelectArtifact(Get(r, "files", <<>>))
    IN  [success       |-> TRUE,
         game_code     |-> chosen.game_code,
         filename      |-> chosen.filename,
         files_created |-> Get(r, "filesCreated", <<>>),
         summary       |-> Get(r, "summary", <<"Game generated successfully using Claude Code SDK">>),
         messages      |-> Get(r, "messages", <<>>)]
BridgeSuccess(r) ==
    LET chosen == SelectArtifact(Get(r, "codeGenerated", <<>>))
    IN  [success       |-> TRUE,
         game_code     |-> chosen.game_code,
         filename      |-> chosen.filename,
         files_created |-> Get(r, "filesCreated", <<>>),
         summary       |-> Get(r, "summary", <<"Game generated successfully using Claude Code SDK">>),
         messages      |-> Get(r, "messages", <<>>)]

\* What the body after os.remove returns for an exited subprocess.
BridgeResult(returncode, stderr, stdout) ==
    IF returncode # 0
    THEN BridgeFailure(<<"Node.js execution failed: ">> \o stderr)
    ELSE LET parsed == parse_node_output(stdout)
         IN  IF parsed.kind # "dict"
             THEN BridgeFailure(ExecuteFailed(<<"AttributeError">>))
             ELSE IF Get(parsed.value, "success", FALSE) = TRUE
             THEN BridgeSuccess(parsed.value)
             ELSE BridgeFailure(Get(parsed.value, "error", <<"Unknown error from Claude Code">>))

\* The module-level objects of api_server after initialize_services: each is
\* constructed, or start-up fails and nothing is served.
Globals == [kernel |-> TRUE, game_agent |-> TRUE, file_ops_plugin |-> TRUE,
            phaser_tools_plugin |-> TRUE, claude_code_bridge |-> TRUE]

\* The answer of health_check.
HealthResponse ==
    [status   |-> IF Globals.kernel /\ Globals.game_agent THEN "healthy" ELSE "unhealthy",
     version  |-> "1.0.0",
     features |-> [game_generation |-> Globals.kernel /\ Globals.game_agent,
                   file_operations |-> Globals.file_ops_plugin,
                   phaser_tools    |-> Globals.phaser_tools_plugin,
                   claude_code_sdk |-> Globals.claude_code_bridge]]
NoHealth == [status |-> "none"]

\* The subprocess of an invocation before it is spawned.
NoProc == [state |-> "none", ran |-> 0, returncode |-> 0, stdout |-> <<>>, stderr |-> <<>>]

\* The synchronous head of generate_game_with_claude_code: the script is
\* written to script_path and the subprocess is spawned; the coroutine then
\* suspends in create_subprocess_exec / communicate.
bridge_start(i) ==
    /\ bpc[i] = "idle"
    /\ node_ok
    /\ script' = i
    /\ proc' = [proc EXCEPT ![i] = [NoProc EXCEPT !.state = "starting"]]
    /\ bpc' = [bpc EXCEPT ![i] = "communicate"]
    /\ UNCHANGED <<bresult, agentVars, restVars>>

\* open(script_path, 'w') raises: only the outer except clause runs.
bridge_open_fails(i) ==
    /\ bpc[i] = "idle"
    /\ bresult' = [bresult EXCEPT ![i] =
           BridgeFailure(ExecuteFailed(<<"OSError">>))]
    /\ bpc' = [bpc EXCEPT ![i] = "returned"]
    /\ UNCHANGED <<script, proc, agentVars, restVars>>

\* The script is written but node cannot be executed: the inner except clause
\* removes the file at script_path and re-raises.
bridge_exec_fails_AsRemoveFailure(i) ==
    /\ bpc[i] = "idle"
    /\ ~node_ok
    /\ script' = 0
    /\ proc' = [proc EXCEPT ![i] = [NoProc EXCEPT !.state = "exec_failed"]]
    /\ bresult' = [bresult EXCEPT ![i] = BridgeFailure(ExecuteFailed(NoSuchFile(script_path)))]
    /\ bpc' = [bpc EXCEPT ![i] = "returned"]
    /\ UNCHANGED <<agentVars, restVars>>
bridge_exec_fails(i) ==
    /\ bpc[i] = "idle"
    /\ ~node_ok
    /\ script' = 0
    /\ proc' = [proc EXCEPT ![i] = [NoProc EXCEPT !.state = "exec_failed"]]
    /\ bresult' = [bresult EXCEPT ![i] = BridgeFailure(ExecuteFailed(NoSuchFile(node_executable)))]
    /\ bpc' = [bpc EXCEPT ![i] = "returned"]
    /\ UNCHANGED <<agentVars, restVars>>

\* node opens the file named on its command line.
node_load(i) ==
    /\ proc[i].state = "starting"
    /\ proc' = [proc EXCEPT ![i] =
           IF script = 0
           THEN [@ EXCEPT !.state = "exited", !.returncode = 1, !.stderr = ModuleNotFound]
           ELSE [@ EXCEPT !.state = "running", !.ran = script]]
    /\ UNCHANGED <<script, bpc, bresult, agentVars, restVars>>

\* The subprocess exits.
node_exit(i, returncode, stdout, stderr) ==
    /\ proc[i].state = "running"
    /\ proc' = [proc EXCEPT ![i] = [@ EXCEPT !.state = "exited", !.returncode = returncode,
                                             !.stdout = stdout, !.stderr = stderr]]
    /\ UNCHANGED <<script, bpc, bresult, agentVars, restVars>>

\* The subprocess blocks for good (buildWithClaude never settles).
node_hang(i) ==
    /\ proc[i].state = "running"
    /\ proc' = [proc EXCEPT ![i] = [@ EXCEPT !.state = "hung"]]
    /\ UNCHANGED <<script, bpc, bresult, agentVars, restVars>>

\* communicate() returns: os.remove(script_path), then the result is built.
\* os.remove of an absent file raises FileNotFoundError, which both except
\* clauses turn into a failure.
bridge_communicate_returns_NoCleanupOnFailure(i) ==
    /\ bpc[i] = "communicate"
    /\ proc[i].state = "exited"
    /\ IF script = 0
       THEN /\ bresult' = [bresult EXCEPT ![i] =
                   BridgeFailure(ExecuteFailed(NoSuchFile(script_path)))]
            /\ UNCHANGED script
       ELSE /\ bresult' = [bresult EXCEPT ![i] =
                   BridgeResult(proc[i].returncode, proc[i].stderr, proc[i].stdout)]
            /\ script' = IF proc[i].returncode # 0 THEN script ELSE 0
    /\ bpc' = [bpc EXCEPT ![i] = "returned"]
    /\ UNCHANGED <<proc, agentVars, restVars>>
bridge_communicate_returns(i) ==
    /\ bpc[i] = "communicate"
    /\ proc[i].state = "exited"
    /\ IF script = 0
       THEN /\ bresult' = [bresult EXCEPT ![i] =
                   BridgeFailure(ExecuteFailed(NoSuchFile(script_path)))]
            /\ UNCHANGED script
       ELSE /\ bresult' = [bresult EXCEPT ![i] =
                   BridgeResult(proc[i].returncode, proc[i].stderr, proc[i].stdout)]
            /\ script' = 0
    /\ bpc' = [bpc EXCEPT ![i] = "returned"]
    /\ UNCHANGED <<proc, agentVars, restVars>>

\* The task is cancelled while suspended in communicate(): CancelledError is
\* not an Exception, so neither except clause runs; nothing removes the
\* script and nothing signals the subprocess.
bridge_cancelled(i) ==
    /\ bpc[i] = "communicate"
    /\ bpc' = [bpc EXCEPT ![i] = "cancelled"]
    /\ UNCHANGED <<script, proc, bresult, agentVars, restVars>>

\* The host gains or loses the node executable.
node_availability_changes ==
    /\ node_ok' = ~node_ok
    /\ UNCHANGED <<agentVars, bridgeVars, health, fn, fin, fout>>

\* GET /health
health_check ==
    /\ health' = HealthResponse
    /\ UNCHANGED <<agentVars, bridgeVars, node_ok, fn, fin, fout>>

BridgeNext ==
    \/ node_availability_changes
    \/ health_check
    \/ \E i \in Invocations : bridge_start(i)
    \/ \E i \in Invocations : bridge_open_fails(i)
    \/ \E i \in Invocations : bridge_exec_fails(i)
    \/ \E i \in Invocations : node_load(i)
    \/ \E i \in Invocations, stdout \in Stdouts, stderr \in Stderrs :
          node_exit(i, 0, stdout, stderr)
    \/ \E i \in Invocations, stderr \in Stderrs : node_exit(i, 1, OutSuccess, stderr)
    \/ \E i \in Invocations : node_hang(i)
    \/ \E i \in Invocations : bridge_communicate_returns(i)
    \/ \E i \in Invocations : bridge_cancelled(i)

(***************************************************************************)
(* Specifications                                                          *)
(***************************************************************************)
\* The state after construction, with the input of a helper function that is
\* applied on its own.
Start(input) ==
    /\ chat_history = <<SystemTurn>>
    /\ pc = [c \in Calls |-> "idle"]
    /\ op = [c \in Calls |-> "none"]
    /\ arg = [c \in Calls |-> NoArg]
    /\ invoked = [c \in Calls |-> <<>>]
    /\ raised = [c \in Calls |-> NoException]
    /\ result = [c \in Calls |-> NoResult]
    /\ script = 0
    /\ bpc = [i \in Invocations |-> "idle"]
    /\ proc = [i \in Invocations |-> NoProc]
    /\ bresult = [i \in Invocations |-> NoResult]
    /\ node_ok \in BOOLEAN
    /\ health = NoHealth
    /\ fn = "none"
    /\ fin = input
    /\ fout = <<>>

Init == Start(<<>>)

\* The agent does not depend on the node executable.
AgentInit == Init /\ node_ok = TRUE

Next == AgentNext \/ BridgeNext

\* The whole service.
Spec == Init /\ [][Next]_vars

\* The agent alone, and the bridge alone.
AgentSpec == AgentInit /\ [][AgentNext]_vars
BridgeSpec == Init /\ [][BridgeNext]_vars

(***************************************************************************)
(* Properties                                                              *)
(***************************************************************************)
IsPrefix(s, t) == Len(s) <= Len(t) /\ SubSeq(t, 1, Len(s)) = s

\* The turns a call has added to the history, in order.
TurnsOf(c) ==
    LET F[n \in 0..Len(chat_history)] ==
            IF n = 0 THEN <<>>
            ELSE IF chat_history[n].call = c THEN Append(F[n - 1], chat_history[n])
            ELSE F[n - 1]
    IN  F[Len(chat_history)]

RolesOf(c) == [n \in 1..Len(TurnsOf(c)) |-> TurnsOf(c)[n].role]

GenerateDone(c) == op[c] = "generate" /\ pc[c] = "done"

C4_Original ==
    \A c \in Calls :
        (GenerateDone(c) /\ result[c].success = FALSE) => RolesOf(c) = <<"user">>

\* C5: every step leaves the former history as a prefix of the new one, and
\* the system turn stays first.
C5_AppendOnly ==
    /\ [](chat_history[1] = SystemTurn)
    /\ [][IsPrefix(chat_history, chat_history')]_vars

C5_Witness ==
    /\ Len(chat_history) = 5
    /\ \E c, d \in Calls : op[c] = "generate" /\ op[d] = "review"
                           /\ pc[c] = "done" /\ pc[d] = "done"

\* C6 (as stated): every finished generate_game or review_game call has handed
\* over one outcome; an outcome flagged as failure carries no generated code
\* and an outcome flagged as success carries no error.
C6_Original ==
    \A c \in Calls :
        pc[c] = "done" =>
            /\ result[c] # NoResult
            /\ result[c].success = TRUE => "error" \notin DOMAIN result[c]
            /\ result[c].success = FALSE => Get(result[c], "game_code", <<>>) = <<>>

C8_Original ==
    \A i \in Invocations :
        proc[i].state \in {"running", "exited", "hung"} => proc[i].ran = i

\* C9 (as stated): an invocation never waits forever on a subprocess that
\* does not exit: while it waits on a subprocess that will never exit, the
\* step by which it gives up and returns is possible.
C9_Original ==
    \A i \in Invocations :
        (bpc[i] = "communicate" /\ proc[i].state = "hung") =>
            ENABLED bridge_communicate_returns(i)

\* C10 (as stated): after a cancellation the script of the invocation is
\* removed and its subprocess no longer runs.
C10_Original ==
    \A i \in Invocations :
        bpc[i] = "cancelled" =>
            /\ script # i
            /\ proc[i].state \notin {"starting", "running", "hung"}

\* The positions of the turns of call c in the shared history.
PositionsOf(c) == {k \in 1..Len(chat_history) : chat_history[k].call = c}

\* Call c reached the agent before call d: its user turn, appended before the
\* first suspension of generate_game, stands before that of d.
ArrivedBefore(c, d) ==
    /\ PositionsOf(c) # {}
    /\ PositionsOf(d) # {}
    /\ \E k \in PositionsOf(c) : \A l \in PositionsOf(d) : k < l

\* C11: when two requests reach the same session, the user turn and the
\* assistant turn of the request that arrived first both precede every turn
\* of the request that arrived second, under every interleaving of the two
\* service calls.  The one game_agent of api_server is the session of every
\* request.
C11_Original ==
    \A c \in Calls, d \in Calls :
        (c # d /\ ArrivedBefore(c, d)) =>
            \A k \in PositionsOf(c), l \in PositionsOf(d) : k < l

\* The session id api_server reports for request c: "session_" and the name
\* of the task serving the request, one task per request.
SessionId(c) == <<"session_", c>>

\* The history handed to the service by call c (chat_history=self.chat_history
\* at the await): the turns up to and including the user turn of c.
SentHistory(c) ==
    IF PositionsOf(c) = {} THEN <<>>
    ELSE SubSeq(chat_history, 1, CHOOSE k \in PositionsOf(c) : \A l \in PositionsOf(c) : k <= l)

\* C12: no mutable state is shared between requests of different sessions:
\* the history sent to the service for a request holds, after the system
\* message, only turns of requests of that request's own session.
C12_Original ==
    \A c \in Calls :
        \A k \in 1..Len(SentHistory(c)) :
            LET d == SentHistory(c)[k].call
            IN  d # 0 => SessionId(d) = SessionId(c)

(***************************************************************************)
(* The bridge on one subprocess, over a family of outputs.                 *)
(***************************************************************************)
MaxPairs == 2

\* The sequences over S of length at most n.
SeqsUpTo(S, n) == UNION {[1..k -> S] : k \in 0..n}

\* The pairs of the objects the generated script prints: fields of the value
\* buildWithClaude resolves to, and a mapping under the key files, which the
\* bridge does not read.
PayloadPairs == {"k:success=true", "k:success=false", "k:summary=s", "k:error=e"}
                    \cup MappingTokens

Bodies == {<<"{">> \o ps \o <<"}">> : ps \in SeqsUpTo(PayloadPairs, MaxPairs)}

\* console.log('RESULT_START'); console.log(JSON.stringify(result)); console.log('RESULT_END')
ResultFrame(body) == <<"RESULT_START">> \o body \o <<"RESULT_END">>
\* console.log('ERROR_START'); ...; console.log('ERROR_END')
ErrorFrame(body) == <<"ERROR_START">> \o body \o <<"ERROR_END">>
\* Log lines of the subprocess around the frame.
Logged(out) == <<"T">> \o out \o <<"T">>

\* Outputs that hold no JSON object: nothing at all, the markers in the wrong
\* order, a frame around a value that is no object or around no JSON, a
\* frame that is not closed.
MalformedOutputs ==
    { <<>>,
      <<"RESULT_END", "{", "k:success=true", "}", "RESULT_START">>,
      ResultFrame(<<"[]">>), ErrorFrame(<<"[]">>), ResultFrame(<<"T">>),
      <<"RESULT_START", "{", "k:success=true", "}">> }

NodeOutputs ==
    Stdouts \cup Bodies \cup MalformedOutputs
        \cup {ResultFrame(b) : b \in Bodies} \cup {Logged(ResultFrame(b)) : b \in Bodies}
        \cup {ErrorFrame(b) : b \in Bodies}

\* One invocation from the launch to the returned dictionary.
OutputNext ==
    \/ bridge_start(1)
    \/ node_load(1)
    \/ \E stdout \in NodeOutputs : node_exit(1, 0, stdout, <<>>)
    \/ \E stdout \in NodeOutputs : node_exit(1, 1, stdout, <<"stderr">>)
    \/ bridge_communicate_returns(1)

\* The node executable is installed.
OutputInit == Init /\ node_ok = TRUE

OutputSpec == OutputInit /\ [][OutputNext]_vars

\* The object between the RESULT markers of a well-formed output.
ResultBodies(stdout) == {b \in Bodies : stdout \in {ResultFrame(b), Logged(ResultFrame(b))}}

\* The name and content of the first entry of a mapping whose name ends in .html.
FirstHtml(mapping) ==
    mapping[CHOOSE k \in 1..Len(mapping) :
               /\ IsHtml(mapping[k].file)
               /\ \A l \in 1..(k - 1) : ~IsHtml(mapping[l].file)]

\* Invocation i has returned the result of a subprocess that exited 0.
ReturnedFromExit0(i) ==
    /\ bpc[i] = "returned"
    /\ proc[i].state = "exited"
    /\ proc[i].returncode = 0

\* C13: for every well-formed RESULT_START/RESULT_END payload whose object has
\* success true and a non-empty file mapping with an entry named *.html, the
\* bridge returns a success whose code is that entry's content, whatever it
\* is, and whose filename is that entry's name.
C13_Original ==
    \A i \in Invocations :
        ReturnedFromExit0(i) =>
            \A b \in ResultBodies(proc[i].stdout) :
                LET d == JsonDict(b)
                IN  (/\ Get(d, "success", FALSE) = TRUE
                     /\ "codeGenerated" \in DOMAIN d
                     /\ \E k \in 1..Len(d.codeGenerated) : IsHtml(d.codeGenerated[k].file))
                    => /\ bresult[i].success = TRUE
                       /\ bresult[i].game_code = FirstHtml(d.codeGenerated).content
                       /\ bresult[i].filename = FirstHtml(d.codeGenerated).file

\* The outputs of C14: the object of the claim, and the same object with the
\* mapping under the key the bridge reads.
OutFiles == ResultFrame(<<"{", "k:success=true", "k:files=game", "}">>)
OutCodeGenerated == ResultFrame(<<"{", "k:success=true", "k:codeGenerated=game", "}">>)

\* C14: a subprocess that exits 0 and prints RESULT_START, the object
\* {"success": true, "files": {"game.html": "<html></html>"}} and RESULT_END
\* makes the bridge return a success with code "<html></html>" and filename
\* "game.html".
C14_Original ==
    \A i \in Invocations :
        (ReturnedFromExit0(i) /\ proc[i].stdout = OutFiles) =>
            /\ bresult[i].success = TRUE
            /\ bresult[i].game_code = <<"<html></html>">>
            /\ bresult[i].filename = "game.html"

\* C14, amended: the bridge reads the mapping under the key codeGenerated;
\* with that key the result is a success with code "<html></html>" and
\* filename "game.html", and with the key files it is a success with empty
\* code and the default filename.
C14_Amended ==
    \A i \in Invocations :
        ReturnedFromExit0(i) =>
            /\ proc[i].stdout = OutCodeGenerated =>
                  /\ bresult[i].success = TRUE
                  /\ bresult[i].game_code = <<"<html></html>">>
                  /\ bresult[i].filename = "game.html"
            /\ proc[i].stdout = OutFiles =>
                  /\ bresult[i].success = TRUE
                  /\ bresult[i].game_code = <<>>
                  /\ bresult[i].filename = "game.html"

C14_Witness ==
    \E i \in Invocations :
        /\ ReturnedFromExit0(i)
        /\ proc[i].stdout = OutCodeGenerated
        /\ bresult[i].game_code = <<"<html></html>">>

(***************************************************************************)
(* _escape_js_string and the template literal of the generated script.     *)
(* A prompt is a sequence of characters: "BS" is the backslash, "BT" the   *)
(* quoting character of a template literal, "DOLLAR" the sigil of an       *)
(* interpolation, "CR" and "LF" the line terminators, "a" any other one.   *)
(***************************************************************************)
MaxPromptLen == 3

Chars == {"BS", "BT", "DOLLAR", "{", "a", "CR", "LF"}
PromptTexts == SeqsUpTo(Chars, MaxPromptLen)

\* str.replace(old, new) for a single character old.
RECURSIVE Replace(_, _, _)
Replace(s, old, new) ==
    IF s = <<>> THEN <<>>
    ELSE (IF Head(s) = old THEN new ELSE <<Head(s)>>) \o Replace(Tail(s), old, new)

\* _escape_js_string: three replacements, one after the other.
escape_js_string(s) ==
    Replace(Replace(Replace(s, "BS", <<"BS", "BS">>), "BT", <<"BS", "BT">>),
            "DOLLAR", <<"BS", "DOLLAR">>)

\* The value node gives the text between the quoting characters of
\* buildWithClaude(...) in the script: a backslash and the character after
\* it stand for that character (for nothing before a line terminator), a
\* bare quoting character ends the literal, a bare sigil before a brace
\* starts an interpolation, and CR or CR LF is read as LF.
RECURSIVE TemplateValue(_)
TemplateValue(t) ==
    IF t = <<>> THEN <<>>
    ELSE IF Head(t) = "BS" THEN
        IF Len(t) = 1 THEN <<"UNTERMINATED">>
        ELSE IF t[2] = "CR" /\ Len(t) >= 3 /\ t[3] = "LF" THEN TemplateValue(SubSeq(t, 4, Len(t)))
        ELSE IF t[2] \in {"CR", "LF"} THEN TemplateValue(SubSeq(t, 3, Len(t)))
        ELSE <<t[2]>> \o TemplateValue(SubSeq(t, 3, Len(t)))
    ELSE IF Head(t) = "BT" THEN <<"CLOSED">>
    ELSE IF Head(t) = "DOLLAR" /\ Len(t) >= 2 /\ t[2] = "{" THEN <<"INTERPOLATED">>
    ELSE IF Head(t) = "CR" THEN
        <<"LF">> \o TemplateValue(SubSeq(t, IF Len(t) >= 2 /\ t[2] = "LF" THEN 3 ELSE 2, Len(t)))
    ELSE <<Head(t)>> \o TemplateValue(Tail(t))

\* The number of backslashes that stand directly before position k.
RECURSIVE BackslashesBefore(_, _)
BackslashesBefore(t, k) ==
    IF k > 1 /\ t[k - 1] = "BS" THEN 1 + BackslashesBefore(t, k - 1) ELSE 0

\* Every quoting character and every sigil has an odd number of backslashes
\* before it, every other character and the end an even number.
BackslashesPaired(t) ==
    /\ \A k \in 1..Len(t) :
          t[k] # "BS" => BackslashesBefore(t, k) % 2 = (IF t[k] \in {"BT", "DOLLAR"} THEN 1 ELSE 0)
    /\ BackslashesBefore(t, Len(t) + 1) % 2 = 0

\* The escaping routine applied to a prompt.
apply_escape_js_string ==
    /\ fn = "none"
    /\ fn' = "_escape_js_string"
    /\ fout' = escape_js_string(fin)
    /\ UNCHANGED <<agentVars, bridgeVars, node_ok, health, fin>>

EscapeInit == \E prompt \in PromptTexts : Start(prompt) /\ node_ok = TRUE
EscapeSpec == EscapeInit /\ [][apply_escape_js_string]_vars

\* C15: for every prompt, the escaped text has an odd number of backslashes
\* before every quoting character and every sigil and no unpaired backslash,
\* and the template literal made of it evaluates to exactly the prompt.
C15_Original ==
    fn = "_escape_js_string" =>
        /\ BackslashesPaired(fout)
        /\ TemplateValue(fout) = fin

\* The part of C15 that holds: the pairing, and a literal that the prompt can
\* neither close nor interpolate.
C15_Paired ==
    fn = "_escape_js_string" =>
        /\ BackslashesPaired(fout)
        /\ \A k \in 1..Len(TemplateValue(fout)) :
              TemplateValue(fout)[k] \notin {"CLOSED", "INTERPOLATED", "UNTERMINATED"}
        /\ (\A k \in 1..Len(fin) : fin[k] # "CR") => TemplateValue(fout) = fin

(***************************************************************************)
(* The two extractors of html code from a response, over a family of       *)
(* response texts: GameDeveloperAgent._parse_agent_response and            *)
(* ClaudeCodePlugin._extract_game_code_from_messages.                      *)
(***************************************************************************)
MaxSegments == 3

\* JSON objects with an object-valued field: "k:meta=" is the key and the
\* colon, the braces after it are those of the value.
NestedObjects ==
    { <<"{", "k:filename=f", "k:meta=", "{", "}", "}">>,
      <<"{", "k:meta=", "{", "k:summary=s", "}", "k:filename=f", "}">> }

\* The pieces a response text is made of: prose, whitespace, fences, code,
\* whole fenced blocks, JSON objects, braces, and an html document.
Segments ==
    { <<"T">>, <<" ">>, <<"FENCE_HTML">>, <<"FENCE">>, <<"H">>,
      <<"FENCE_HTML", " ", "H", " ", "FENCE">>,
      <<"FENCE_HTML", "H2", "FENCE">>,
      <<"FENCE_HTML", "FENCE">>,
      <<"{", "k:game_code=g", "}">>, <<"{", "k:filename=f", "}">>,
      <<"{", "k:success=false", "}">>, <<"{", "k:summary=s", "}">>,
      <<"{">>, <<"}">>,
      <<"DOCTYPE", "H", "END_HTML">> } \cup NestedObjects

RECURSIVE Concat(_)
Concat(ss) == IF ss = <<>> THEN <<>> ELSE Head(ss) \o Concat(Tail(ss))

ResponseTexts == {Concat(ss) : ss \in SeqsUpTo(Segments, MaxSegments)}

\* A message of a Claude Code session.
Message(type, content) == [type |-> type, content |-> content]

\* The messages that precede the last one.
EarlierMessages ==
    { <<>>, <<Message("user", <<"T">>)>>,
      <<Message("assistant", <<"FENCE_HTML", "H0", "FENCE">>)>> }

\* The <!DOCTYPE html> ... </html> span of a content, or nothing.
ParseDocument(content) ==
    LET start == Find(content, {"DOCTYPE"}, 1)
        end   == Find(content, {"END_HTML"}, start)
    IN  IF start # 0 /\ end > start
        THEN [game_code |-> Strip(SubSeq(content, start, end))]
        ELSE <<>>

\* The first loop of _extract_game_code_from_messages, from message k down.
RECURSIVE ExtractLoop(_, _)
ExtractLoop(messages, k) ==
    IF k = 0 THEN <<>>
    ELSE IF messages[k].type # "assistant" THEN ExtractLoop(messages, k - 1)
    ELSE IF "game_code" \in DOMAIN ParseFence(messages[k].content)
         THEN ParseFence(messages[k].content)
    ELSE IF "game_code" \in DOMAIN ParseDocument(messages[k].content)
         THEN ParseDocument(messages[k].content)
    ELSE ExtractLoop(messages, k - 1)

\* _extract_game_code_from_messages
extract_game_code_from_messages(messages) ==
    LET found      == ExtractLoop(messages, Len(messages))
        assistants == {k \in 1..Len(messages) : messages[k].type = "assistant"}
    IN  IF "game_code" \in DOMAIN found THEN found.game_code
        ELSE IF assistants = {} THEN <<>>
        ELSE messages[CHOOSE k \in assistants : \A l \in assistants : l <= k].content

\* The agent parses a response.
apply_parse_agent_response ==
    /\ fn = "none"
    /\ fn' = "_parse_agent_response"
    /\ fout' = parse_agent_response(fin)
    /\ UNCHANGED <<agentVars, bridgeVars, node_ok, health, fin>>

\* The plugin extracts the code from a session that ends with the response.
apply_extract_game_code_from_messages(earlier) ==
    /\ fn = "none"
    /\ fn' = "_extract_game_code_from_messages"
    /\ fout' = [messages |-> earlier \o <<Message("assistant", fin)>>,
                code     |-> extract_game_code_from_messages(
                                 earlier \o <<Message("assistant", fin)>>)]
    /\ UNCHANGED <<agentVars, bridgeVars, node_ok, health, fin>>

(***************************************************************************)
(* ClaudeCodePlugin.review_and_improve_code                                *)
(***************************************************************************)
\* The code handed in for review.
ReviewedCode == <<"G">>

\* _summarize_changes, with the lengths taken on the tokens.
SummarizeChanges(original, improved) ==
    IF Len(improved) > Len(original)
        THEN "Enhanced the game with additional features and improvements"
    ELSE IF Len(improved) < Len(original)
        THEN "Optimized and streamlined the game code"
    ELSE "Refined and improved the game implementation"

\* _fallback_review
FallbackReview(game_code) ==
    [success         |-> FALSE,
     error           |-> "Claude Code SDK not available for code review.",
     improved_code   |-> game_code,
     changes_summary |-> "Review requires Claude Code SDK"]

\* review_and_improve_code: available is CLAUDE_CODE_AVAILABLE, raises tells
\* whether query raised, messages are the messages it yielded.
review_and_improve_code(available, game_code, raises, messages) ==
    IF ~available THEN FallbackReview(game_code)
    ELSE IF raises
    THEN [success         |-> FALSE,
          error           |-> "str(e)",
          improved_code   |-> game_code,
          changes_summary |-> "Error occurred during review"]
    ELSE [success         |-> TRUE,
          improved_code   |-> extract_game_code_from_messages(messages),
          changes_summary |-> SummarizeChanges(game_code,
                                               extract_game_code_from_messages(messages)),
          messages        |-> messages]

\* The plugin reviews ReviewedCode in a session that ends with the response.
apply_review_and_improve_code(available, raises, earlier) ==
    /\ fn = "none"
    /\ fn' = "review_and_improve_code"
    /\ fout' = [game_code |-> ReviewedCode,
                available |-> available,
                raises    |-> raises,
                messages  |-> earlier \o <<Message("assistant", fin)>>,
                result    |-> review_and_improve_code(available, ReviewedCode, raises,
                                  earlier \o <<Message("assistant", fin)>>)]
    /\ UNCHANGED <<agentVars, bridgeVars, node_ok, health, fin>>

ExtractNext ==
    \/ apply_parse_agent_response
    \/ \E earlier \in EarlierMessages : apply_extract_game_code_from_messages(earlier)
    \/ \E available \in BOOLEAN, raises \in BOOLEAN, earlier \in EarlierMessages :
          /\ (~available \/ raises) => earlier = <<>>
          /\ apply_review_and_improve_code(available, raises, earlier)

ExtractInit == \E content \in ResponseTexts : Start(content) /\ node_ok = TRUE
ExtractSpec == ExtractInit /\ [][ExtractNext]_vars

\* The text opens its first fence with the html tag and closes it.
FirstFence(content) == Find(content, FenceTokens, 1)
HasHtmlBlock(content) ==
    /\ FirstFence(content) # 0
    /\ content[FirstFence(content)] = "FENCE_HTML"
    /\ Find(content, FenceTokens, FirstFence(content) + 1) # 0
    /\ content[Find(content, FenceTokens, FirstFence(content) + 1)] = "FENCE"

\* The inner text of that block.
FirstBlockInner(content) ==
    SubSeq(content, FirstFence(content) + 1,
           Find(content, FenceTokens, FirstFence(content) + 1) - 1)

\* C16: for every response text with one or more html-tagged fenced blocks the
\* extracted code is the trimmed inner text of the first such block, whatever
\* the prose around it and the later blocks, and the filename is game.html
\* unless another is given.
C16_Original ==
    HasHtmlBlock(fin) =>
        /\ fn = "_parse_agent_response" =>
              /\ Get(fout, "game_code", <<>>) = Strip(FirstBlockInner(fin))
              /\ "filename" \notin DOMAIN ParseJson(fin) =>
                     Get(fout, "filename", "game.html") = "game.html"
        /\ fn = "_extract_game_code_from_messages" =>
              fout.code = Strip(FirstBlockInner(fin))

\* C16, amended: the same, except that the agent lets a game_code field of a
\* trailing JSON object replace the fenced code, and that the plugin does not
\* take a block with nothing between its fences for a block.
C16_Amended ==
    HasHtmlBlock(fin) =>
        /\ fn = "_parse_agent_response" =>
              /\ "game_code" \notin DOMAIN ParseJson(fin) =>
                     Get(fout, "game_code", <<>>) = Strip(FirstBlockInner(fin))
              /\ "game_code" \in DOMAIN ParseJson(fin) =>
                     fout.game_code = ParseJson(fin).game_code
              /\ "filename" \notin DOMAIN ParseJson(fin) =>
                     Get(fout, "filename", "game.html") = "game.html"
        /\ (fn = "_extract_game_code_from_messages" /\ FirstBlockInner(fin) # <<>>) =>
              fout.code = Strip(FirstBlockInner(fin))

\* A response with prose, a first block and a later block of other code has
\* been parsed by the agent.
C16_Witness ==
    /\ fn = "_parse_agent_response"
    /\ fin = <<"T", "FENCE_HTML", " ", "H", " ", "FENCE", "FENCE_HTML", "H2", "FENCE">>
    /\ fout.game_code = <<"H">>

\* The text holds neither an html-tagged fence nor an html document.
NoCodeIn(content) ==
    /\ Find(content, {"FENCE_HTML"}, 1) = 0
    /\ DOMAIN ParseDocument(content) = {}

\* C17: when the response holds neither an html-tagged fence nor a
\* <!DOCTYPE html> ... </html> document, the call returns a success with
\* empty code whose summary is the response text as it came.
C17_Original ==
    \A c \in Calls :
        (/\ op[c] = "generate"
         /\ pc[c] = "done"
         /\ "agent_response" \in DOMAIN result[c]
         /\ NoCodeIn(result[c].agent_response))
        => /\ result[c].success = TRUE
           /\ result[c].game_code = <<>>
           /\ result[c].summary = result[c].agent_response

\* The user turn of call c, once appended.
UserTurnOf(c) == chat_history[CHOOSE k \in PositionsOf(c) : \A l \in PositionsOf(c) : k <= l]

\* C18: the request a backend receives for a review holds both the complete
\* original code and the feedback text.
C18_Original ==
    \A c \in Calls :
        (op[c] = "review" /\ pc[c] # "idle") =>
            /\ UserTurnOf(c).content[2] = arg[c].feedback
            /\ UserTurnOf(c).content[3] = arg[c].game_code

\* Invocation i returned because node could not be executed.
LaunchFailed(i) == bpc[i] = "returned" /\ proc[i].state = "exec_failed"

\* Invocation i returned a failure of a subprocess that ran and exited:
\* non-zero exit, output that cannot be parsed, an error object, a script gone.
RunFailed(i) ==
    /\ bpc[i] = "returned"
    /\ proc[i].state = "exited"
    /\ bresult[i].success = FALSE

C20_Original ==
    [][health' # health =>
          /\ health'.features.claude_code_sdk = node_ok
          /\ UNCHANGED <<script, proc, bpc, chat_history>>]_vars

\* One of the three attempts of _parse_node_output on the output yields a
\* JSON object: the text between the RESULT markers, the text between the
\* ERROR markers, the whole output.
YieldsObject(output) ==
    \/ /\ Contains(output, "RESULT_START") /\ Contains(output, "RESULT_END")
       /\ JsonLoads(Between(output, "RESULT_START", "RESULT_END")).kind = "dict"
    \/ /\ Contains(output, "ERROR_START") /\ Contains(output, "ERROR_END")
       /\ JsonLoads(Between(output, "ERROR_START", "ERROR_END")).kind = "dict"
    \/ JsonLoads(output).kind = "dict"

\* C21: on a zero exit, for every stdout in which neither the RESULT frame,
\* nor the ERROR frame, nor the whole text yields a JSON object, the bridge
\* returns a failure for malformed output that carries the raw stdout.
C21_Original ==
    \A i \in Invocations :
        (ReturnedFromExit0(i) /\ ~YieldsObject(proc[i].stdout)) =>
            /\ bresult[i].success = FALSE
            /\ bresult[i].error = <<"Failed to parse Node.js output: ">> \o proc[i].stdout

\* C22: when the subprocess exits with a non-zero code the bridge returns a
\* failure whose message carries the stderr of the subprocess, with empty
\* code, whatever stdout holds.
C22_Original ==
    \A i \in Invocations :
        (bpc[i] = "returned" /\ proc[i].state = "exited" /\ proc[i].returncode # 0) =>
            /\ bresult[i].success = FALSE
            /\ bresult[i].game_code = <<>>
            /\ bresult[i].error = <<"Node.js execution failed: ">> \o proc[i].stderr

\* C23: on a zero exit, an object between the ERROR markers gives a failure
\* whose message is the error string of the object and never a success,
\* whatever its other fields; an object between the RESULT markers whose
\* success is false or absent never gives a success either.
C23_Original ==
    \A i \in Invocations :
        ReturnedFromExit0(i) =>
            \A b \in Bodies :
                /\ proc[i].stdout = ErrorFrame(b) =>
                      /\ bresult[i].success = FALSE
                      /\ "error" \in DOMAIN JsonDict(b) => bresult[i].error = JsonDict(b).error
                /\ (/\ proc[i].stdout \in {ResultFrame(b), Logged(ResultFrame(b))}
                    /\ Get(JsonDict(b), "success", FALSE) # TRUE)
                   => bresult[i].success = FALSE

\* The payload d reports success with a non-empty mapping without .html entry.
SuccessWithoutHtml(d) ==
    /\ Get(d, "success", FALSE) = TRUE
    /\ "codeGenerated" \in DOMAIN d
    /\ Len(d.codeGenerated) > 0
    /\ \A k \in 1..Len(d.codeGenerated) : ~IsHtml(d.codeGenerated[k].file)

\* C24: for every successful payload (the object _parse_node_output decoded
\* from the output) whose mapping is non-empty and has no entry named *.html,
\* the bridge returns the first entry of the mapping in the order of the
\* payload: its name as filename and its content as code.
C24_FirstKey ==
    \A i \in Invocations :
        (/\ ReturnedFromExit0(i)
         /\ parse_node_output(proc[i].stdout).kind = "dict"
         /\ SuccessWithoutHtml(parse_node_output(proc[i].stdout).value)) =>
            /\ bresult[i].success = TRUE
            /\ bresult[i].filename =
                   parse_node_output(proc[i].stdout).value.codeGenerated[1].file
            /\ bresult[i].game_code =
                   parse_node_output(proc[i].stdout).value.codeGenerated[1].content

\* A payload with main.js before style.css has been returned as main.js.
C24_Witness ==
    \E i \in Invocations :
        /\ ReturnedFromExit0(i)
        /\ proc[i].stdout = ResultFrame(<<"{", "k:success=true", "k:codeGenerated=js_css", "}">>)
        /\ bresult[i].filename = "main.js"
        /\ bresult[i].game_code = <<"J">>

\* The text holds no html-tagged fence but <!DOCTYPE html> and, later, </html>.
HasDocumentOnly(content) ==
    /\ Find(content, {"FENCE_HTML"}, 1) = 0
    /\ Find(content, {"DOCTYPE"}, 1) # 0
    /\ Find(content, {"END_HTML"}, Find(content, {"DOCTYPE"}, 1)) # 0

\* The span from the first <!DOCTYPE html> through the closing tag.
DocumentOf(content) ==
    SubSeq(content, Find(content, {"DOCTYPE"}, 1),
           Find(content, {"END_HTML"}, Find(content, {"DOCTYPE"}, 1)))

\* C25: for every response text without html-tagged fence that holds
\* <!DOCTYPE html> followed later by </html>, the extracted code is the text
\* from the first <!DOCTYPE html> through the closing tag, on each of the two
\* extraction paths: the agent's response parser and the plugin's extractor.
C25_Original ==
    HasDocumentOnly(fin) =>
        /\ fn = "_parse_agent_response" => Get(fout, "game_code", <<>>) = DocumentOf(fin)
        /\ fn = "_extract_game_code_from_messages" => fout.code = DocumentOf(fin)

\* The span from the last opening brace through the last closing brace.
TrailingSpan(content) ==
    IF RFind(content, {"{"}) # 0 /\ RFind(content, {"}"}) # 0
    THEN SubSeq(content, RFind(content, {"{"}), RFind(content, {"}"}))
    ELSE <<>>

\* C26: when the trailing span of a response decodes to a JSON object, its
\* fields override the result: a filename or a summary of the object replaces
\* game.html and the raw text, and what the fence gave and the object does
\* not mention is kept.
C26_Overrides ==
    (fn = "_parse_agent_response" /\ IsJsonObject(TrailingSpan(fin))) =>
        LET json_data == JsonDict(TrailingSpan(fin))
        IN  /\ \A k \in DOMAIN json_data : fout[k] = json_data[k]
            /\ \A k \in DOMAIN ParseFence(fin) \ DOMAIN json_data : fout[k] = ParseFence(fin)[k]
            /\ "summary" \notin DOMAIN json_data => fout.summary = fin
            /\ "success" \notin DOMAIN json_data => fout.success = TRUE

\* A fenced block followed by an object that names a filename.
C26_Witness ==
    /\ fn = "_parse_agent_response"
    /\ fin = <<"FENCE_HTML", " ", "H", " ", "FENCE", "{", "k:filename=f", "}">>
    /\ fout.filename = "f.html"
    /\ fout.game_code = <<"H">>

\* The text ends with the object o.
EndsWith(content, o) ==
    /\ Len(content) >= Len(o)
    /\ SubSeq(content, Len(content) - Len(o) + 1, Len(content)) = o

\* C27: a response whose trailing JSON object holds nested braces is still
\* resolved, so that the fields of the outer object, here its filename,
\* enrich the result.
C27_Original ==
    (fn = "_parse_agent_response" /\ \E o \in NestedObjects : EndsWith(fin, o)) =>
        Get(fout, "filename", "game.html") = "f.html"

\* C28: when the trailing span of a response does not decode to a JSON
\* object, the result is what the steps before the enrichment gave: success,
\* the raw text as summary, and the code and filename of the fence if any.
C28_NoEnrichment ==
    (fn = "_parse_agent_response" /\ ~IsJsonObject(TrailingSpan(fin))) =>
        fout = Update([success |-> TRUE, summary |-> fin], ParseFence(fin))

\* A fenced block followed by an object that does not decode has been parsed.
C28_Witness ==
    /\ fn = "_parse_agent_response"
    /\ fin = <<"FENCE_HTML", "H2", "FENCE", "{", "k:filename=f", "k:meta=", "{", "}", "}">>
    /\ fout = [success |-> TRUE, summary |-> fin, game_code |-> <<"H2">>, filename |-> "game.html"]

\* The session holds no code: no assistant message has an html fence or an
\* html document.
NoCodeSupplied(messages) ==
    \A k \in 1..Len(messages) :
        messages[k].type = "assistant" => NoCodeIn(messages[k].content)

\* C29: a review never loses the caller's code: whenever the returned result
\* has an improved_code field and the backend did not supply improved code
\* (it is unavailable, it raised, or its answer carried no code),
\* improved_code is the game_code that was handed in.
C29_Original ==
    (/\ fn = "review_and_improve_code"
     /\ "improved_code" \in DOMAIN fout.result
     /\ (~fout.available \/ fout.raises \/ NoCodeSupplied(fout.messages)))
    => fout.result.improved_code = fout.game_code

(***************************************************************************)
(* api_server: POST /api/generate, FileOperationsPlugin.save_game_file     *)
(***************************************************************************)
\* Optional[str] values of a request: None, the empty string, a name.
ProjectNames == {"None", "", "proj"}
IsTruthy(s) == s \notin {"None", ""}

\* What game_agent.generate_game did: it returned one of its dictionaries or
\* an exception left it.
AgentOutcomes ==
    {[raises |-> FALSE, result |-> GenerateSuccess(content)] : content \in Responses}
    \cup {[raises |-> FALSE, result |-> GenerateFailure("No response from AI service")]}
    \cup {[raises |-> FALSE, result |-> GenerateFailure(m)] : m \in ErrorMessages}
    \cup {[raises |-> TRUE, e |-> e] : e \in Exceptions}

\* What the file system does to save_game_file: the file is written, open
\* raises, or write raises after open created the file.
SaveOutcomes == {"ok", "open_raises", "write_raises"}

\* One request to the handler with the state of the module's globals.
HandlerInputs ==
    [game_agent      : BOOLEAN,
     file_ops_plugin : BOOLEAN,
     project_name    : ProjectNames,
     outcome         : AgentOutcomes,
     save            : SaveOutcomes]

\* save_game_file: the files it leaves on disk and whether it raised.
save_game_file(filename, content, project_name, save) ==
    LET file_path == IF IsTruthy(project_name)
                     THEN <<"output_dir", project_name, filename>>
                     ELSE <<"output_dir", filename>>
    IN  CASE save = "ok" ->
               [raises |-> FALSE, files |-> {[file_path |-> file_path, content |-> content]}]
          [] save = "open_raises" ->
               [raises |-> TRUE, files |-> {}]
          [] save = "write_raises" ->
               [raises |-> TRUE, files |-> {[file_path |-> file_path, content |-> <<>>]}]

\* GameGenerationResponse(success=False, error=str(e)); the fields the
\* constructor is not given stay None and are left out of the record.
ErrorResponse(error) ==
    [kind |-> "GameGenerationResponse", success |-> FALSE, error |-> error]

SuccessResponse(res, project_name) ==
    [kind         |-> "GameGenerationResponse",
     success      |-> TRUE,
     game_code    |-> res.game_code,
     filename     |-> res.filename,
     summary      |-> res.summary,
     project_name |-> project_name,
     session_id   |-> "session_id"]

\* The handler, variant: the file is saved before success is looked at.
generate_game_handler_SaveFirst(in) ==
    IF ~in.game_agent
    THEN [response |-> [kind |-> "HTTPException", status_code |-> 503],
          handed |-> <<>>, files |-> {}]
    ELSE IF in.outcome.raises
    THEN [response |-> ErrorResponse(in.outcome.e.msg), handed |-> <<>>, files |-> {}]
    ELSE LET res == in.outcome.result
             saving == IsTruthy(in.project_name) /\ in.file_ops_plugin
             saved  == save_game_file(Get(res, "filename", "game.html"),
                                      Get(res, "game_code", <<>>),
                                      in.project_name, in.save)
             handed == IF saving
                       THEN <<[filename     |-> Get(res, "filename", "game.html"),
                               content      |-> Get(res, "game_code", <<>>),
                               project_name |-> in.project_name]>>
                       ELSE <<>>
             files  == IF saving THEN saved.files ELSE {}
         IN  IF saving /\ saved.raises
             THEN [response |-> ErrorResponse("str(e)"), handed |-> handed, files |-> files]
             ELSE IF res.success
             THEN [response |-> SuccessResponse(res, in.project_name),
                   handed |-> handed, files |-> files]
             ELSE [response |-> ErrorResponse("500: Failed to generate game"),
                   handed |-> handed, files |-> files]

\* The handler of POST /api/generate: the response (or the HTTPException
\* that leaves it), the save_game_file calls it made, the files on disk.
generate_game_handler(in) ==
    IF ~in.game_agent
    THEN [response |-> [kind |-> "HTTPException", status_code |-> 503],
          handed |-> <<>>, files |-> {}]
    ELSE IF in.outcome.raises
    THEN [response |-> ErrorResponse(in.outcome.e.msg), handed |-> <<>>, files |-> {}]
    ELSE LET res == in.outcome.result
         IN  IF res.success
             THEN IF IsTruthy(in.project_name) /\ in.file_ops_plugin
                  THEN LET saved == save_game_file(res.filename, res.game_code,
                                                   in.project_name, in.save)
                           handed == <<[filename     |-> res.filename,
                                        content      |-> res.game_code,
                                        project_name |-> in.project_name]>>
                       IN  IF saved.raises
                           THEN [response |-> ErrorResponse("str(e)"),
                                 handed |-> handed, files |-> saved.files]
                           ELSE [response |-> SuccessResponse(res, in.project_name),
                                 handed |-> handed, files |-> saved.files]
                  ELSE [response |-> SuccessResponse(res, in.project_name),
                        handed |-> <<>>, files |-> {}]
             ELSE [response |-> ErrorResponse("500: Failed to generate game"),
                   handed |-> <<>>, files |-> {}]

\* One request is handled.
apply_generate_game_handler ==
    /\ fn = "none"
    /\ fn' = "generate_game_handler"
    /\ fout' = generate_game_handler(fin)
    /\ UNCHANGED <<agentVars, bridgeVars, node_ok, health, fin>>

HandlerInit == \E in \in HandlerInputs : Start(in) /\ node_ok = TRUE
HandlerSpec == HandlerInit /\ [][apply_generate_game_handler]_vars

\* The agent of the handled request reported success.
AgentReportedSuccess == ~fin.outcome.raises /\ fin.outcome.result.success

\* C30: the handler hands the generated file to the storage plugin only when
\* the agent reported success and the request named a project; it answers
\* success = true only when the agent reported success; when the agent
\* reports failure or raises, the response has success = false with an error
\* text and no game code, and no file is written.
C30_Handler ==
    fn = "generate_game_handler" =>
        /\ fout.handed # <<>> => (AgentReportedSuccess /\ IsTruthy(fin.project_name))
        /\ (fout.response.kind = "GameGenerationResponse" /\ fout.response.success)
               => AgentReportedSuccess
        /\ (fin.game_agent /\ ~AgentReportedSuccess) =>
               /\ fout.response.kind = "GameGenerationResponse"
               /\ ~fout.response.success
               /\ "error" \in DOMAIN fout.response
               /\ "game_code" \notin DOMAIN fout.response
               /\ fout.handed = <<>>
               /\ fout.files = {}

\* A request that names a project, with the storage plugin present, whose
\* agent reported failure, has been answered.
C30_Witness ==
    /\ fn = "generate_game_handler"
    /\ fin.game_agent /\ fin.file_ops_plugin /\ fin.project_name = "proj"
    /\ ~fin.outcome.raises /\ ~fin.outcome.result.success
    /\ ~fout.response.success

====
